---- MODULE Spec2Model ----
(***************************************************************************)
(* InSales payment monitor: the daily notification sweep                   *)
(* (app/services/notifier.py), the remote account client                   *)
(* (app/services/insales.py), the two tables (app/models.py,               *)
(* app/repositories.py) and the Telegram handlers (app/telegram_bot/bot.py)*)
(* as a state machine.                                                     *)
(*                                                                         *)
(* An optional value (Optional[date]) is a sequence: <<>> is Python's None *)
(* and <<d>> holds the date d.  A date is the day of January 2024, so that *)
(* (a - b).days is a - b.                                                  *)
(***************************************************************************)
EXTENDS Integers, Sequences, FiniteSets, TLC

None == << >>
Some(d) == << d >>

(* ---- bounds ---- *)
MaxDays == 2

(* ---- program constants ---- *)
DueSoonDays == 7

(* The days the clock runs through, and the expiry dates the remote reports. *)
Days == 15 .. (14 + MaxDays)
Dates == {15, 23}
OptDates == {None} \cup {Some(d) : d \in Dates}

(* ---- the chat directory's identifiers; settings.super_admin_chat_id ---- *)
ChatIds == {"100", "200", "300"}
SuperAdminChatId == "100"

VARIABLES
    accounts,      \* table accounts: sequence of rows in insertion order, id = index
    chats,         \* table telegram_chats: set of rows
    today,         \* the calendar date in the scheduler's timezone
    sw_pc,         \* notify_due_payments: where the task is
    sw_today,      \* its parameter today
    sw_accounts,   \* its local accounts, from the loop's current account on
    sw_chats,      \* its local chats
    sw_message,    \* its local message
    sw_j,          \* index of broadcast_message's loop over chats
    sw_attempted,  \* chat ids send_message was called for in this broadcast
    sw_delivered,  \* chat ids Telegram delivered this broadcast's message to
    sw_instances,  \* running instances of the scheduler's job _run_notifications
    sw_tx,         \* whether the sweep's session is in a transaction
    bcast,         \* per account id: the day of its latest broadcast and the
                   \* number of broadcasts begun for it on that day
    reply,         \* the last answer of a handler: the chat, the text, the keyboard
    conv,          \* per chat: the state of the add-account ConversationHandler
    user_data,     \* per user: context.user_data["new_account"]
    reg_pc,        \* per chat: whether add_account_api_password waits for its fetch
    cl_resp,       \* a call of fetch_account on its own: what the remote answers
    cl_info,       \* and what the call returned or raised (Pending before it ends)
    sw_failed      \* per account id (history, kept under SpecHeal only): <<d>> when
                   \* its latest fetch failed, in the sweep of day d; <<d, e>> when
                   \* its latest fetch, in the sweep of day e, was the first to
                   \* succeed after the failure of day d; <<>> otherwise

sweepVars == << sw_pc, sw_today, sw_accounts, sw_chats, sw_message,
                sw_j, sw_attempted, sw_delivered, sw_instances, sw_tx >>
regVars == << conv, user_data, reg_pc >>
clientVars == << cl_resp, cl_info >>
vars == << accounts, chats, today, sweepVars, bcast, reply, regVars, clientVars, sw_failed >>

(***************************************************************************)
(* Remote account client (services/insales.py)                             *)
(***************************************************************************)
(* date.isoformat for the dates of the model *)
Iso(d) ==
    CASE d = 15 -> "2024-01-15"
      [] d = 23 -> "2024-01-23"
      [] OTHER -> "2024-01-31"

(* JSON values found under the key "paid_till". *)
Absent == [t |-> "absent"]
JStr(s) == [t |-> "str", s |-> s]
JNum == [t |-> "num"]
DateStrings == {""} \cup {Iso(d) : d \in Dates} \cup {"20.01.2024"}
FieldValues == {Absent, JNum} \cup {JStr(s) : s \in DateStrings}

(* JSON payloads: not an object, or an object whose "account" is absent, not an
   object, or an object. *)
JDict(pt) == [t |-> "dict", paid_till |-> pt]
Payloads ==
    {[t |-> "list"]}
    \cup {[t |-> "dict", paid_till |-> pt, account |-> a] :
            pt \in FieldValues, a \in {Absent, JNum}}
    \cup {[t |-> "dict", paid_till |-> pt, account |-> JDict(n)] :
            pt \in {Absent, JStr(Iso(15))}, n \in FieldValues}

(* What the GET ends with. *)
Responses ==
    {[t |-> "neterr"], [t |-> "status"], [t |-> "badjson"]}
    \cup {[t |-> "json", payload |-> p] : p \in Payloads}

Raise(e) == [raised |-> e, paid_till |-> None]
Return(v) == [raised |-> "", paid_till |-> v]

(* date.fromisoformat *)
(* A parse that gives up on a malformed string by returning no date. *)
fromisoformat_lenient(v) ==
    IF v.t # "str" THEN Raise("TypeError")
    ELSE IF \E d \in Dates : Iso(d) = v.s
         THEN Return(Some(CHOOSE d \in Dates : Iso(d) = v.s))
    ELSE Return(None)

fromisoformat(v) ==
    IF v.t # "str" THEN Raise("TypeError")
    ELSE IF \E d \in Dates : Iso(d) = v.s
         THEN Return(Some(CHOOSE d \in Dates : Iso(d) = v.s))
         ELSE Raise("ValueError")

(* Python truth of a JSON value. *)
Truthy(v) == v.t = "num" \/ (v.t = "str" /\ v.s # "")

(* The root's paid_till preferred when it is there. *)
account_data_root_first(payload) ==
    IF payload.t = "dict"
    THEN IF payload.paid_till.t = "absent" /\ payload.account.t = "dict"
         THEN payload.account
         ELSE JDict(payload.paid_till)
    ELSE JDict(Absent)

account_data(payload) ==
    IF payload.t = "dict"
    THEN IF payload.account.t = "dict" THEN payload.account ELSE JDict(payload.paid_till)
    ELSE JDict(Absent)

fetch_account(resp) ==
    CASE resp.t = "neterr" -> Raise("HTTPError")
      [] resp.t = "status" -> Raise("HTTPError")
      [] resp.t = "badjson" -> Raise("ValueError")
      [] OTHER ->
           LET paid_till_str == account_data(resp.payload).paid_till
           IN IF Truthy(paid_till_str) THEN fromisoformat(paid_till_str) ELSE Return(None)

(***************************************************************************)
(* Tables and repositories (models.py, repositories.py)                    *)
(***************************************************************************)
TitleRank(t) == CASE t = "Alpha" -> 1 [] t = "Beta" -> 2 [] OTHER -> 3

Account(id, title, shop_domain, api_key, api_password, paid_till) ==
    [id |-> id, title |-> title, shop_domain |-> shop_domain, api_key |-> api_key,
     api_password |-> api_password, paid_till |-> paid_till,
     notifications_enabled |-> TRUE, last_notified_at |-> None]

TelegramChat(chat_id, is_admin, is_super_admin) ==
    [chat_id |-> chat_id, is_admin |-> is_admin, is_super_admin |-> is_super_admin]

Perms(n) == {p \in [1..n -> 1..n] : \A a, b \in 1..n : a # b => p[a] # p[b]}

(* select(Account).order_by(Account.title): every order the database may return. *)
list_accounts(rows) ==
    LET n == Len(rows)
    IN {[k \in 1..n |-> rows[p[k]]] :
          p \in {q \in Perms(n) :
                   \A a, b \in 1..n :
                      a < b => TitleRank(rows[q[a]].title) <= TitleRank(rows[q[b]].title)}}

get_account(rows, account_id) ==
    IF account_id \in 1..Len(rows) THEN Some(rows[account_id]) ELSE None

(* update_paid_till that stores nothing. *)
update_paid_till_lost(rows, account, paid_till) == rows

(* A refresh of paid_till that writes the date to last_notified_at as well. *)
update_paid_till_marking(rows, account, paid_till) ==
    [rows EXCEPT ![account.id].paid_till = paid_till,
                 ![account.id].last_notified_at = paid_till]

update_paid_till(rows, account, paid_till) ==
    [rows EXCEPT ![account.id].paid_till = paid_till]

(* A write of the flag that also forgets the last notification. *)
set_notification_state_resetting(rows, account, enabled) ==
    [rows EXCEPT ![account.id].notifications_enabled = enabled,
                 ![account.id].last_notified_at = None]

set_notification_state(rows, account, enabled) ==
    [rows EXCEPT ![account.id].notifications_enabled = enabled]

update_last_notified(rows, account, notification_date) ==
    [rows EXCEPT ![account.id].last_notified_at = Some(notification_date)]

(* The rows of a set of chats as a list, in the order of their chat ids. *)
ChatOrder == << "100", "200", "300" >>
AsList(rows) ==
    LET ids == SelectSeq(ChatOrder, LAMBDA c : \E r \in rows : r.chat_id = c)
    IN [k \in 1..Len(ids) |-> CHOOSE r \in rows : r.chat_id = ids[k]]

list_chats(rows) == AsList(rows)

list_admin_chats(rows) == AsList({r \in rows : r.is_admin})

get_chat(rows, chat_id) ==
    IF \E r \in rows : r.chat_id = chat_id
    THEN Some(CHOOSE r \in rows : r.chat_id = chat_id)
    ELSE None

(***************************************************************************)
(* The notification sweep (services/notifier.py, scheduler.py)             *)
(***************************************************************************)
NoMessage == [kind |-> "none", title |-> "", paid_till |-> None, days |-> 0]

(* The three texts: what each one says. *)
Overdue(account) ==
    [kind |-> "overdue", title |-> account.title, paid_till |-> account.paid_till,
     days |-> 0]
DueIn(account, days_left) ==
    [kind |-> "due_in", title |-> account.title, paid_till |-> account.paid_till,
     days |-> days_left]
DueToday(account) ==
    [kind |-> "due_today", title |-> account.title, paid_till |-> account.paid_till,
     days |-> 0]

(* (account.paid_till - today).days *)
DaysLeft(account, day) == account.paid_till[1] - day

(* The branch with the upper limit excluded. *)
Classify_exclusive(days_left) ==
    IF days_left < 0 THEN "overdue"
    ELSE IF 0 <= days_left /\ days_left < DueSoonDays THEN "due_soon"
    ELSE "none"

(* The branch of if days_left < 0 / elif 0 <= days_left <= 7 / else. *)
Classify(days_left) ==
    IF days_left < 0 THEN "overdue"
    ELSE IF 0 <= days_left /\ days_left <= DueSoonDays THEN "due_soon"
    ELSE "none"

(* Suppression once notified, on whatever day. *)
Suppressed_once(account, day) == account.last_notified_at # None

(* No check of last_notified_at. *)
Suppressed_never(account, day) == FALSE

(* if account.last_notified_at == today: continue *)
Suppressed(account, day) == account.last_notified_at = Some(day)

(* An account without a known expiry taken for overdue. *)
Compose_unknown_overdue(account, day) ==
    IF account.paid_till = None
    THEN IF Suppressed(account, day) THEN NoMessage ELSE Overdue(account)
    ELSE LET days_left == DaysLeft(account, day)
             class == Classify(days_left)
         IN CASE class = "overdue" ->
                   IF Suppressed(account, day) THEN NoMessage ELSE Overdue(account)
              [] class = "due_soon" ->
                   IF Suppressed(account, day) THEN NoMessage
                   ELSE IF days_left > 0 THEN DueIn(account, days_left)
                   ELSE DueToday(account)
              [] OTHER -> NoMessage

(* Lines 66-91: the message for an account, or NoMessage for continue. *)
Compose(account, day) ==
    IF account.paid_till = None THEN NoMessage
    ELSE LET days_left == DaysLeft(account, day)
             class == Classify(days_left)
         IN CASE class = "overdue" ->
                   IF Suppressed(account, day) THEN NoMessage ELSE Overdue(account)
              [] class = "due_soon" ->
                   IF Suppressed(account, day) THEN NoMessage
                   ELSE IF days_left > 0 THEN DueIn(account, days_left)
                   ELSE DueToday(account)
              [] OTHER -> NoMessage

(* The exceptions of fetch_account the sweep's except clause catches. *)
Caught(info) == info.raised \in {"HTTPError", "ValueError"}

(* The recipients the sweep loads. *)
Recipients(rows) == list_chats(rows)

(* The session's transaction (sqlalchemy's AsyncSession): a statement begins one
   when none is open, commit and rollback end it, refresh is a SELECT, and leaving
   'async with' closes the session. *)
execute(tx) == "open"
commit(tx) == "none"
refresh(tx) == execute(tx)
close(tx) == "none"

ResetBroadcast ==
    /\ sw_message' = NoMessage
    /\ sw_j' = 0
    /\ sw_attempted' = {}
    /\ sw_delivered' = {}

(* notify_due_payments returns, or an exception leaves it: the session closes. *)
SweepReturn ==
    /\ sw_pc' = "idle"
    /\ sw_instances' = sw_instances - 1
    /\ sw_tx' = close(sw_tx)
    /\ sw_today' = 0
    /\ sw_accounts' = << >>
    /\ sw_chats' = << >>
    /\ ResetBroadcast

(* continue: the next account of the loop, or the end of the loop; tx is the
   session's transaction after this account's store operations. *)
Continue(tx) ==
    IF Len(sw_accounts) > 1
    THEN /\ sw_pc' = "loop"
         /\ sw_accounts' = Tail(sw_accounts)
         /\ sw_tx' = tx
         /\ UNCHANGED << sw_today, sw_chats, sw_instances >>
         /\ ResetBroadcast
    ELSE SweepReturn

(* No check of notifications_enabled. *)
Skipped_never(account) == FALSE

(* if not account.notifications_enabled: continue *)
Skipped(account) == ~account.notifications_enabled

(* add_job(self._run_notifications, trigger) names no max_instances, so the
   job has the scheduler's default of one running instance. *)
max_instances == 1

(* A scheduler that starts the job whatever is running. *)
Submittable_always(running) == TRUE

(* The scheduler runs a due job only while fewer than max_instances of it are
   running; otherwise that run is skipped. *)
Submittable(running) == running < max_instances

(* The trigger fires: Scheduler._run_notifications and notify_due_payments up to
   the loop.  The locals followed are those of the first running instance. *)
SweepStart ==
    /\ Submittable(sw_instances)
    /\ IF sw_pc = "idle"
       THEN \E loaded \in list_accounts(accounts) :
              IF loaded = << >> \/ Recipients(chats) = << >>
              THEN UNCHANGED sweepVars
              ELSE /\ sw_pc' = "loop"
                   /\ sw_instances' = sw_instances + 1
                   /\ sw_tx' = execute(execute(sw_tx))
                   /\ sw_today' = today
                   /\ sw_accounts' = loaded
                   /\ sw_chats' = Recipients(chats)
                   /\ ResetBroadcast
       ELSE /\ sw_instances' = sw_instances + 1
            /\ UNCHANGED << sw_pc, sw_today, sw_accounts, sw_chats, sw_message,
                            sw_j, sw_attempted, sw_delivered, sw_tx >>
    /\ UNCHANGED << accounts, chats, today, bcast, reply, regVars, clientVars, sw_failed >>

(* The head of the loop: a disabled account is skipped, for the others the fetch
   is issued. *)
SweepEvaluate ==
    /\ sw_pc = "loop"
    /\ IF Skipped(Head(sw_accounts))
       THEN Continue(sw_tx)
       ELSE /\ sw_pc' = "fetch"
            /\ UNCHANGED << sw_today, sw_accounts, sw_chats, sw_message, sw_j,
                            sw_attempted, sw_delivered, sw_instances, sw_tx >>
    /\ UNCHANGED << accounts, chats, today, bcast, reply, regVars, clientVars, sw_failed >>

(* One more broadcast on day: the count for the day of the latest broadcast. *)
Counted(b, day) == IF b.day = day THEN [b EXCEPT !.n = @ + 1] ELSE [day |-> day, n |-> 1]

(* Lines 51-91, once fetch_account has returned or raised info. *)
SweepAfterFetch(info) ==
    /\ sw_pc = "fetch"
    /\ LET account == Head(sw_accounts)
       IN IF Caught(info)
          THEN /\ Continue(sw_tx)
               /\ UNCHANGED << accounts, bcast >>
          ELSE IF info.raised # ""
          THEN /\ SweepReturn
               /\ UNCHANGED << accounts, bcast >>
          ELSE LET differs == info.paid_till # account.paid_till
                   rows == IF differs
                           THEN update_paid_till(accounts, account, info.paid_till)
                           ELSE accounts
                   refreshed == IF differs THEN rows[account.id] ELSE account
                   tx == IF differs THEN refresh(commit(sw_tx)) ELSE sw_tx
                   message == Compose(refreshed, sw_today)
               IN /\ accounts' = rows
                  /\ IF message.kind = "none"
                     THEN /\ Continue(tx)
                          /\ UNCHANGED bcast
                     ELSE /\ sw_pc' = "send"
                          /\ sw_tx' = tx
                          /\ sw_accounts' = [sw_accounts EXCEPT ![1] = refreshed]
                          /\ sw_message' = message
                          /\ sw_j' = 1
                          /\ sw_attempted' = {}
                          /\ sw_delivered' = {}
                          /\ bcast' = [bcast EXCEPT ![account.id] =
                                         Counted(@, sw_today)]
                          /\ UNCHANGED << sw_today, sw_chats, sw_instances >>
    /\ UNCHANGED << chats, today, reply, regVars, clientVars >>

(* The fetch ends with the remote's answer resp. *)
SweepFetchReturn(resp) ==
    /\ SweepAfterFetch(fetch_account(resp))
    /\ UNCHANGED sw_failed

(* The same step, with the outcome of the fetch noted for the account. *)
SweepFetchNoted(resp) ==
    /\ SweepAfterFetch(fetch_account(resp))
    /\ sw_failed' = [sw_failed EXCEPT ![Head(sw_accounts).id] =
                       IF fetch_account(resp).raised # "" THEN << sw_today >>
                       ELSE IF Len(@) = 1 THEN << @[1], sw_today >>
                       ELSE << >>]

(* What fetch_account can return or raise. *)
FetchOutcomes == {fetch_account(resp) : resp \in Responses}

(* broadcast_message without the except clause: a failed send ends the sweep. *)
SweepSend_raising(delivered) ==
    /\ sw_pc = "send"
    /\ IF delivered
       THEN /\ sw_attempted' = sw_attempted \cup {sw_chats[sw_j].chat_id}
            /\ sw_delivered' = sw_delivered \cup {sw_chats[sw_j].chat_id}
            /\ IF sw_j < Len(sw_chats)
               THEN sw_j' = sw_j + 1 /\ sw_pc' = "send"
               ELSE sw_j' = sw_j /\ sw_pc' = "mark"
            /\ UNCHANGED << sw_today, sw_accounts, sw_chats, sw_message, sw_instances,
                            sw_tx >>
       ELSE SweepReturn
    /\ UNCHANGED << accounts, chats, today, bcast, reply, regVars, clientVars, sw_failed >>

(* broadcast_message: send_message to the next chat is delivered or raises
   TelegramError. *)
SweepSend(delivered) ==
    /\ sw_pc = "send"
    /\ LET chat == sw_chats[sw_j]
       IN /\ sw_attempted' = sw_attempted \cup {chat.chat_id}
          /\ sw_delivered' = IF delivered THEN sw_delivered \cup {chat.chat_id}
                             ELSE sw_delivered
          /\ IF sw_j < Len(sw_chats)
             THEN sw_j' = sw_j + 1 /\ sw_pc' = "send"
             ELSE sw_j' = sw_j /\ sw_pc' = "mark"
    /\ UNCHANGED << sw_today, sw_accounts, sw_chats, sw_message, sw_instances, sw_tx >>
    /\ UNCHANGED << accounts, chats, today, bcast, reply, regVars, clientVars, sw_failed >>

(* Line 94: update_last_notified, then the next account. *)
SweepMark ==
    /\ sw_pc = "mark"
    /\ accounts' = update_last_notified(accounts, Head(sw_accounts), sw_today)
    /\ Continue(refresh(commit(sw_tx)))
    /\ UNCHANGED << chats, today, bcast, reply, regVars, clientVars, sw_failed >>

(* Midnight in the scheduler's timezone. *)
NextDay ==
    /\ today + 1 \in Days
    /\ today' = today + 1
    /\ UNCHANGED << accounts, chats, sweepVars, bcast, reply, regVars, clientVars, sw_failed >>

(***************************************************************************)
(* The access gate and the notification toggle (telegram_bot/bot.py)       *)
(***************************************************************************)
_get_access_flags(chat_id) ==
    LET chat == get_chat(chats, chat_id)
    IN IF chat = None
       THEN [is_admin |-> FALSE, is_super_admin |-> FALSE]
       ELSE [is_admin |-> chat[1].is_admin, is_super_admin |-> chat[1].is_super_admin]

(* A gate for messages that lets every chat pass. *)
_ensure_admin_for_message_open(chat_id, super_admin) == "ok"

(* "ok" for True, else the text answered before returning False. *)
_ensure_admin_for_message(chat_id, super_admin) ==
    LET flags == _get_access_flags(chat_id)
    IN IF super_admin /\ ~flags.is_super_admin THEN "only_super_admin"
       ELSE IF ~flags.is_admin THEN "no_access"
       ELSE "ok"

(* A gate for callbacks that asks for admin rights whatever super_admin says. *)
_ensure_admin_for_callback_any_admin(chat_id, super_admin) ==
    IF ~_get_access_flags(chat_id).is_admin THEN "no_access" ELSE "ok"

_ensure_admin_for_callback(chat_id, super_admin) ==
    LET flags == _get_access_flags(chat_id)
    IN IF super_admin /\ ~flags.is_super_admin THEN "super_admin_required"
       ELSE IF ~flags.is_admin THEN "no_access"
       ELSE "ok"

AnswerWith(chat_id, text, keyboard) ==
    reply' = [chat_id |-> chat_id, text |-> text, keyboard |-> keyboard]
Answer(chat_id, text) == AnswerWith(chat_id, text, "")

(* The callback toggle:{account_id} pressed in chat_id. *)
handle_toggle_callback(chat_id, account_id) ==
    /\ LET gate == _ensure_admin_for_callback(chat_id, FALSE)
           account == get_account(accounts, account_id)
       IN IF gate # "ok"
          THEN Answer(chat_id, gate) /\ UNCHANGED accounts
          ELSE IF account = None
          THEN Answer(chat_id, "account_not_found") /\ UNCHANGED accounts
          ELSE LET new_state == ~account[1].notifications_enabled
               IN /\ accounts' = set_notification_state(accounts, account[1], new_state)
                  /\ Answer(chat_id, IF new_state THEN "notifications_on"
                                      ELSE "notifications_off")
    /\ UNCHANGED << chats, today, sweepVars, bcast, regVars, clientVars, sw_failed >>

(***************************************************************************)
(* The registration conversation (telegram_bot/bot.py, repositories.py)    *)
(*                                                                         *)
(* conv[c] is the ConversationHandler's state for chat c ("END" when no    *)
(* conversation is open), user_data[u] the dict context.user_data          *)
(* ["new_account"] of user u, reg_pc[c] = "fetch" while                    *)
(* add_account_api_password awaits fetch_account.  One user writes in each *)
(* chat; in a private chat the user's id is the chat's id.  Except under   *)
(* SpecFlow, handlers of other chats may run while one chat's fetch is     *)
(* awaited; a chat's own updates are handled one at a time.                *)
(***************************************************************************)
Strip(text) ==
    CASE text = " two.myinsales.ru " -> "two.myinsales.ru"
      [] OTHER -> text

TitleTexts(chat_id) ==
    CASE chat_id = "100" -> {"Alpha"}
      [] chat_id = "200" -> {"Beta"}
      [] OTHER -> {"Gamma"}
DomainTexts == {"one.myinsales.ru", "two.myinsales.ru", " two.myinsales.ru "}
ApiKeyTexts == {"key"}
ApiPasswordTexts == {"secret"}

(* What the remote may answer to the validating fetch: one response for each way
   fetch_account raises and for each value it returns. *)
RegistrationResponses ==
    {[t |-> "neterr"], [t |-> "badjson"]}
      \cup {[t |-> "json", payload |-> [t |-> "dict", paid_till |-> pt, account |-> Absent]] :
               pt \in {Absent, JNum, JStr("20.01.2024")} \cup {JStr(Iso(d)) : d \in Dates}}

EmptyDict == [k \in {} |-> ""]
SetItem(dict, key, value) ==
    [k \in DOMAIN dict \cup {key} |-> IF k = key THEN value ELSE dict[k]]

(* The insert on a table without the unique constraint. *)
add_account_unconstrained(rows, title, shop_domain, api_key, api_password, paid_till) ==
    [raised |-> "",
     rows |-> Append(rows, Account(Len(rows) + 1, title, shop_domain, api_key,
                                   api_password, paid_till))]

(* An insert that leaves paid_till empty, whatever was fetched. *)
add_account_undated(rows, title, shop_domain, api_key, api_password, paid_till) ==
    IF \E i \in DOMAIN rows : rows[i].shop_domain = shop_domain
    THEN [raised |-> "IntegrityError", rows |-> rows]
    ELSE [raised |-> "",
          rows |-> Append(rows, Account(Len(rows) + 1, title, shop_domain, api_key,
                                        api_password, None))]

(* The insert and its commit; shop_domain is unique=True in models.py, so the
   commit raises IntegrityError when a row with that domain is stored. *)
add_account(rows, title, shop_domain, api_key, api_password, paid_till) ==
    IF \E i \in DOMAIN rows : rows[i].shop_domain = shop_domain
    THEN [raised |-> "IntegrityError", rows |-> rows]
    ELSE [raised |-> "",
          rows |-> Append(rows, Account(Len(rows) + 1, title, shop_domain, api_key,
                                        api_password, paid_till))]

(* The static method takes exactly (is_admin, is_super_admin). *)
main_menu_keyboard(args) ==
    IF Len(args) # 2 THEN "TypeError"
    ELSE IF ~args[1] THEN "remove"
    ELSE IF args[2] THEN "super_admin_menu"
    ELSE "admin_menu"

_current_keyboard(chat_id) ==
    LET flags == _get_access_flags(chat_id)
    IN main_menu_keyboard(<< flags.is_admin, flags.is_super_admin >>)

HandlerIdle(chat_id) == reg_pc[chat_id] = "idle"

(* What every step does when _ensure_admin_for_message answered and returned
   False: return ConversationHandler.END. *)
Refused(chat_id, gate) ==
    /\ AnswerWith(chat_id, gate, "remove")
    /\ conv' = [conv EXCEPT ![chat_id] = "END"]
    /\ UNCHANGED << user_data, reg_pc >>

(* Entry point: /add or the menu button, when no conversation is open. *)
add_account_start(chat_id) ==
    /\ conv[chat_id] = "END" /\ HandlerIdle(chat_id)
    /\ LET gate == _ensure_admin_for_message(chat_id, FALSE)
       IN IF gate # "ok"
          THEN Refused(chat_id, gate)
          ELSE /\ AnswerWith(chat_id, "enter_title", "remove")
               /\ conv' = [conv EXCEPT ![chat_id] = "ADD_TITLE"]
               /\ UNCHANGED << user_data, reg_pc >>
    /\ UNCHANGED << accounts, chats, today, sweepVars, bcast, clientVars, sw_failed >>

(* The steps, for a message of user_id in chat_id: the gate reads the chat's
   record, context.user_data is the dict of the user. *)
add_account_title_from(chat_id, user_id, text) ==
    /\ conv[chat_id] = "ADD_TITLE" /\ HandlerIdle(chat_id)
    /\ LET gate == _ensure_admin_for_message(chat_id, FALSE)
       IN IF gate # "ok"
          THEN Refused(chat_id, gate)
          ELSE /\ user_data' = [user_data EXCEPT ![user_id] =
                                   SetItem(EmptyDict, "title", Strip(text))]
               /\ Answer(chat_id, "enter_domain")
               /\ conv' = [conv EXCEPT ![chat_id] = "ADD_DOMAIN"]
               /\ UNCHANGED reg_pc
    /\ UNCHANGED << accounts, chats, today, sweepVars, bcast, clientVars, sw_failed >>

(* In a private chat the chat's id is the user's. *)
add_account_title(chat_id, text) == add_account_title_from(chat_id, chat_id, text)

(* A domain step that also fills in the API key and asks for the password. *)
add_account_domain_skipping(chat_id, text) ==
    /\ conv[chat_id] = "ADD_DOMAIN" /\ HandlerIdle(chat_id)
    /\ user_data' = [user_data EXCEPT ![chat_id] =
                        SetItem(SetItem(@, "shop_domain", Strip(text)), "api_key", "key")]
    /\ Answer(chat_id, "enter_api_password")
    /\ conv' = [conv EXCEPT ![chat_id] = "ADD_API_PASSWORD"]
    /\ UNCHANGED << reg_pc, accounts, chats, today, sweepVars, bcast, clientVars, sw_failed >>

add_account_domain_from(chat_id, user_id, text) ==
    /\ conv[chat_id] = "ADD_DOMAIN" /\ HandlerIdle(chat_id)
    /\ LET gate == _ensure_admin_for_message(chat_id, FALSE)
       IN IF gate # "ok"
          THEN Refused(chat_id, gate)
          ELSE /\ user_data' = [user_data EXCEPT ![user_id] =
                                   SetItem(@, "shop_domain", Strip(text))]
               /\ Answer(chat_id, "enter_api_key")
               /\ conv' = [conv EXCEPT ![chat_id] = "ADD_API_KEY"]
               /\ UNCHANGED reg_pc
    /\ UNCHANGED << accounts, chats, today, sweepVars, bcast, clientVars, sw_failed >>

add_account_domain(chat_id, text) == add_account_domain_from(chat_id, chat_id, text)

add_account_api_key_from(chat_id, user_id, text) ==
    /\ conv[chat_id] = "ADD_API_KEY" /\ HandlerIdle(chat_id)
    /\ LET gate == _ensure_admin_for_message(chat_id, FALSE)
       IN IF gate # "ok"
          THEN Refused(chat_id, gate)
          ELSE /\ user_data' = [user_data EXCEPT ![user_id] =
                                   SetItem(@, "api_key", Strip(text))]
               /\ Answer(chat_id, "enter_api_password")
               /\ conv' = [conv EXCEPT ![chat_id] = "ADD_API_PASSWORD"]
               /\ UNCHANGED reg_pc
    /\ UNCHANGED << accounts, chats, today, sweepVars, bcast, clientVars, sw_failed >>

(* An API key step that does not ask the gate. *)
add_account_api_key_unchecked(chat_id, text) ==
    /\ conv[chat_id] = "ADD_API_KEY" /\ HandlerIdle(chat_id)
    /\ user_data' = [user_data EXCEPT ![chat_id] = SetItem(@, "api_key", Strip(text))]
    /\ Answer(chat_id, "enter_api_password")
    /\ conv' = [conv EXCEPT ![chat_id] = "ADD_API_PASSWORD"]
    /\ UNCHANGED << reg_pc, accounts, chats, today, sweepVars, bcast, clientVars, sw_failed >>

add_account_api_key(chat_id, text) == add_account_api_key_from(chat_id, chat_id, text)

(* Lines 161-174: the gate, the password stored in the dict, the fetch issued.
   new_account["shop_domain"] and new_account["api_key"] are read inside the try:
   when the dict lacks one, the KeyError is caught like a failed fetch, and the
   reply's keyboard argument self.main_menu_keyboard() raises. *)
add_account_api_password_from(chat_id, user_id, text) ==
    /\ conv[chat_id] = "ADD_API_PASSWORD" /\ HandlerIdle(chat_id)
    /\ LET gate == _ensure_admin_for_message(chat_id, FALSE)
           new_account == SetItem(user_data[user_id], "api_password", Strip(text))
       IN IF gate # "ok"
          THEN Refused(chat_id, gate)
          ELSE /\ user_data' = [user_data EXCEPT ![user_id] = new_account]
               /\ IF {"shop_domain", "api_key"} \subseteq DOMAIN new_account
                  THEN /\ reg_pc' = [reg_pc EXCEPT ![chat_id] = "fetch"]
                       /\ UNCHANGED << conv, reply >>
                  ELSE IF main_menu_keyboard(<< >>) = "TypeError"
                  THEN UNCHANGED << reg_pc, conv, reply >>
                  ELSE /\ AnswerWith(chat_id, "fetch_failed", main_menu_keyboard(<< >>))
                       /\ conv' = [conv EXCEPT ![chat_id] = "END"]
                       /\ UNCHANGED reg_pc
    /\ UNCHANGED << accounts, chats, today, sweepVars, bcast, clientVars, sw_failed >>

add_account_api_password(chat_id, text) ==
    add_account_api_password_from(chat_id, chat_id, text)

(* Lines 175-202: the fetch returns or raises.  In the except branch the reply's
   keyboard argument self.main_menu_keyboard() is evaluated first; when it raises,
   nothing is sent and the handler raises, so the ConversationHandler records no
   new state. *)
RegistrationAfterFetch(chat_id, user_id, info) ==
    /\ reg_pc[chat_id] = "fetch"
    /\ reg_pc' = [reg_pc EXCEPT ![chat_id] = "idle"]
    /\ LET new_account == user_data[user_id]
           keyboard == main_menu_keyboard(<< >>)
           added == add_account(accounts, new_account["title"],
                                new_account["shop_domain"], new_account["api_key"],
                                new_account["api_password"], info.paid_till)
       IN IF info.raised # ""
          THEN /\ IF keyboard = "TypeError"
                  THEN UNCHANGED << reply, conv >>
                  ELSE /\ AnswerWith(chat_id, "fetch_failed", keyboard)
                       /\ conv' = [conv EXCEPT ![chat_id] = "END"]
               /\ UNCHANGED accounts
          ELSE IF added.raised = "IntegrityError"
          THEN /\ AnswerWith(chat_id, "already_exists", _current_keyboard(chat_id))
               /\ conv' = [conv EXCEPT ![chat_id] = "END"]
               /\ UNCHANGED accounts
          ELSE /\ accounts' = added.rows
               /\ AnswerWith(chat_id, "saved", _current_keyboard(chat_id))
               /\ conv' = [conv EXCEPT ![chat_id] = "END"]
    /\ UNCHANGED << user_data, chats, today, sweepVars, bcast, sw_failed >>

RegistrationFetchReturn(chat_id, resp) ==
    /\ RegistrationAfterFetch(chat_id, chat_id, fetch_account(resp))
    /\ UNCHANGED clientVars

(* The same step, with the response and what fetch_account made of it kept. *)
RegistrationFetchNoted(chat_id, resp) ==
    /\ RegistrationAfterFetch(chat_id, chat_id, fetch_account(resp))
    /\ cl_resp' = resp
    /\ cl_info' = fetch_account(resp)

(* Fallback /cancel, offered only while a conversation is open. *)
cancel(chat_id) ==
    /\ conv[chat_id] # "END" /\ HandlerIdle(chat_id)
    /\ AnswerWith(chat_id, "cancelled", _current_keyboard(chat_id))
    /\ conv' = [conv EXCEPT ![chat_id] = "END"]
    /\ UNCHANGED << user_data, reg_pc, accounts, chats, today, sweepVars, bcast, clientVars, sw_failed >>

(***************************************************************************)
(* Chat registration and admin management (telegram_bot/bot.py,            *)
(* repositories.py)                                                        *)
(***************************************************************************)
(* is_admin and is_super_admin are Optional[bool]: << >> for None. *)
upsert_chat(rows, chat_id, is_admin, is_super_admin) ==
    LET existing == get_chat(rows, chat_id)
        chat == IF existing # None
                THEN existing[1]
                ELSE TelegramChat(chat_id,
                                  IF is_admin # None THEN is_admin[1] ELSE FALSE,
                                  IF is_super_admin # None THEN is_super_admin[1] ELSE FALSE)
        admin == IF is_admin # None THEN is_admin[1] ELSE chat.is_admin
        super == IF is_super_admin # None THEN is_super_admin[1] ELSE chat.is_super_admin
        stored == TelegramChat(chat_id, IF super /\ ~admin THEN TRUE ELSE admin, super)
    IN [chat |-> stored,
        rows |-> {r \in rows : r.chat_id # chat_id} \cup {stored}]

(* A set_admin_status that writes the flag of any chat it finds. *)
set_admin_status_unguarded(rows, chat_id, is_admin) ==
    LET found == get_chat(rows, chat_id)
    IN IF found = None
       THEN [chat |-> None, updated |-> FALSE, rows |-> rows]
       ELSE LET stored == [found[1] EXCEPT !.is_admin = is_admin]
            IN [chat |-> Some(stored), updated |-> TRUE,
                rows |-> {r \in rows : r.chat_id # chat_id} \cup {stored}]

set_admin_status(rows, chat_id, is_admin) ==
    LET found == get_chat(rows, chat_id)
    IN IF found = None
       THEN [chat |-> None, updated |-> FALSE, rows |-> rows]
       ELSE IF found[1].is_super_admin
       THEN [chat |-> found, updated |-> FALSE, rows |-> rows]
       ELSE LET stored == [found[1] EXCEPT !.is_admin = is_admin]
            IN [chat |-> Some(stored), updated |-> TRUE,
                rows |-> {r \in rows : r.chat_id # chat_id} \cup {stored}]

(* Both flags are passed as booleans, never as None. *)
_register_chat(chat_id) ==
    upsert_chat(chats, chat_id, Some(chat_id = SuperAdminChatId),
                Some(chat_id = SuperAdminChatId))

(* /start: a CommandHandler ahead of the conversation, so it runs in any
   conversation state and leaves that state alone. *)
start(chat_id) ==
    /\ HandlerIdle(chat_id)
    /\ LET registered == _register_chat(chat_id)
       IN /\ chats' = registered.rows
          /\ IF ~registered.chat.is_admin
             THEN AnswerWith(chat_id, "registered_no_access", "remove")
             ELSE AnswerWith(chat_id, "hello",
                             main_menu_keyboard(<< registered.chat.is_admin,
                                                   registered.chat.is_super_admin >>))
    /\ UNCHANGED << accounts, today, sweepVars, bcast, regVars, clientVars, sw_failed >>

(* What _ensure_admin_for_message replies before it returns False. *)
DenyMessage(chat_id, gate) ==
    AnswerWith(chat_id, gate,
               IF gate = "only_super_admin" THEN _current_keyboard(chat_id) ELSE "remove")

(* The menu buttons are texts: a chat in an open conversation has them taken by
   the conversation's step handler, so these run when no conversation is open. *)
MenuText(chat_id) == conv[chat_id] = "END" /\ HandlerIdle(chat_id)

show_accounts(chat_id) ==
    /\ MenuText(chat_id)
    /\ LET gate == _ensure_admin_for_message(chat_id, FALSE)
       IN IF gate # "ok" THEN DenyMessage(chat_id, gate)
          ELSE IF accounts = << >> THEN Answer(chat_id, "no_accounts_yet")
          ELSE Answer(chat_id, "accounts_list")
    /\ UNCHANGED << accounts, chats, today, sweepVars, bcast, regVars, clientVars, sw_failed >>

show_payment_dates(chat_id) ==
    /\ MenuText(chat_id)
    /\ LET gate == _ensure_admin_for_message(chat_id, FALSE)
       IN IF gate # "ok" THEN DenyMessage(chat_id, gate)
          ELSE IF accounts = << >> THEN Answer(chat_id, "no_account_data")
          ELSE Answer(chat_id, "payment_dates")
    /\ UNCHANGED << accounts, chats, today, sweepVars, bcast, regVars, clientVars, sw_failed >>

toggle_notifications_menu(chat_id) ==
    /\ MenuText(chat_id)
    /\ LET gate == _ensure_admin_for_message(chat_id, FALSE)
       IN IF gate # "ok" THEN DenyMessage(chat_id, gate)
          ELSE IF accounts = << >> THEN Answer(chat_id, "accounts_not_found")
          ELSE AnswerWith(chat_id, "choose_account", "toggle_buttons")
    /\ UNCHANGED << accounts, chats, today, sweepVars, bcast, regVars, clientVars, sw_failed >>

(* The text and whether buttons are offered (one per chat that is no super admin). *)
_build_admin_overview(rows) ==
    IF rows = {} THEN [text |-> "no_chats_yet", keyboard |-> ""]
    ELSE [text |-> "admin_overview",
          keyboard |-> IF \E r \in rows : ~r.is_super_admin
                       THEN "admin_buttons" ELSE ""]

show_admin_panel(chat_id) ==
    /\ MenuText(chat_id)
    /\ LET gate == _ensure_admin_for_message(chat_id, TRUE)
           overview == _build_admin_overview(chats)
       IN IF gate # "ok" THEN DenyMessage(chat_id, gate)
          ELSE AnswerWith(chat_id, overview.text, overview.keyboard)
    /\ UNCHANGED << accounts, chats, today, sweepVars, bcast, regVars, clientVars, sw_failed >>

(* The callback admin:{target} pressed in chat_id. *)
handle_admin_toggle_callback(chat_id, target_id) ==
    /\ HandlerIdle(chat_id)
    /\ LET gate == _ensure_admin_for_callback(chat_id, TRUE)
           target == get_chat(chats, target_id)
       IN IF gate # "ok"
          THEN Answer(chat_id, gate) /\ UNCHANGED chats
          ELSE IF target = None
          THEN Answer(chat_id, "chat_not_found") /\ UNCHANGED chats
          ELSE LET new_state == ~target[1].is_admin
                   set == set_admin_status(chats, target_id, new_state)
               IN IF ~set.updated
                  THEN Answer(chat_id, "cannot_change_super_admin") /\ UNCHANGED chats
                  ELSE /\ chats' = set.rows
                       /\ Answer(chat_id, "rights_updated")
    /\ UNCHANGED << accounts, today, sweepVars, bcast, regVars, clientVars, sw_failed >>

(***************************************************************************)
(* Spec: the sweep, the clock and the notification toggle over a store     *)
(* that registrations have filled.                                         *)
(***************************************************************************)
SeedShops ==
    << [title |-> "Beta", shop_domain |-> "one.myinsales.ru"],
       [title |-> "Alpha", shop_domain |-> "two.myinsales.ru"] >>

SuperAdminChat == TelegramChat(SuperAdminChatId, TRUE, TRUE)
AdminChat == TelegramChat("200", TRUE, FALSE)
PlainChat == TelegramChat("300", FALSE, FALSE)

NoReply == [chat_id |-> "", text |-> "", keyboard |-> ""]

(* No call of fetch_account on its own is followed. *)
NoResponse == [t |-> "none"]
Pending == [raised |-> "Pending", paid_till |-> None]
ClientIdle == cl_resp = NoResponse /\ cl_info = Pending

NothingFailed == sw_failed = [a \in 1..Len(SeedShops) |-> None]

RegIdle ==
    /\ conv = [c \in ChatIds |-> "END"]
    /\ user_data = [c \in ChatIds |-> EmptyDict]
    /\ reg_pc = [c \in ChatIds |-> "idle"]

SweepIdle ==
    /\ sw_pc = "idle"
    /\ sw_instances = 0
    /\ sw_tx = "none"
    /\ sw_today = 0
    /\ sw_accounts = << >>
    /\ sw_chats = << >>
    /\ sw_message = NoMessage
    /\ sw_j = 0
    /\ sw_attempted = {}
    /\ sw_delivered = {}

Init ==
    /\ \E n \in 0..Len(SeedShops) :
         /\ \E pts \in [1..n -> OptDates] :
              accounts = [i \in 1..n |->
                            Account(i, SeedShops[i].title, SeedShops[i].shop_domain,
                                    "key", "secret", pts[i])]
         /\ chats \in {{}, {SuperAdminChat, AdminChat, PlainChat}}
         /\ n > 0 => chats # {}
    /\ today = 15
    /\ SweepIdle
    /\ bcast = [a \in 1..Len(SeedShops) |-> [day |-> 0, n |-> 0]]
    /\ reply = NoReply
    /\ RegIdle
    /\ ClientIdle
    /\ NothingFailed

Next ==
    \/ SweepStart
    \/ SweepEvaluate
    \/ \E resp \in Responses : SweepFetchReturn(resp)
    \/ \E delivered \in BOOLEAN : SweepSend(delivered)
    \/ SweepMark
    \/ NextDay
    \/ \E c \in ChatIds, id \in 1..(Len(accounts) + 1) : handle_toggle_callback(c, id)

Spec == Init /\ [][Next]_vars

(***************************************************************************)
(* SpecReg: the registration conversations of the registered chats over an *)
(* empty store; the chats table and the clock stay as they are.            *)
(***************************************************************************)
InitReg ==
    /\ accounts = << >>
    /\ chats = {SuperAdminChat, AdminChat, PlainChat}
    /\ today = 15
    /\ SweepIdle
    /\ bcast = [a \in 1..Len(SeedShops) |-> [day |-> 0, n |-> 0]]
    /\ reply = NoReply
    /\ RegIdle
    /\ ClientIdle
    /\ NothingFailed

NextReg ==
    \E c \in ChatIds :
       \/ add_account_start(c)
       \/ \E text \in TitleTexts(c) : add_account_title(c, text)
       \/ \E text \in DomainTexts : add_account_domain(c, text)
       \/ \E text \in ApiKeyTexts : add_account_api_key(c, text)
       \/ \E text \in ApiPasswordTexts : add_account_api_password(c, text)
       \/ \E resp \in RegistrationResponses : RegistrationFetchReturn(c, resp)
       \/ cancel(c)

SpecReg == InitReg /\ [][NextReg]_vars

(***************************************************************************)
(* SpecIns: the same conversations, with the latest response of the remote *)
(* service and its reading by fetch_account kept in cl_resp and cl_info.   *)
(***************************************************************************)
NextIns ==
    \E c \in ChatIds :
       \/ add_account_start(c)
       \/ \E text \in TitleTexts(c) : add_account_title(c, text)
       \/ \E text \in DomainTexts : add_account_domain(c, text)
       \/ \E text \in ApiKeyTexts : add_account_api_key(c, text)
       \/ \E text \in ApiPasswordTexts : add_account_api_password(c, text)
       \/ \E resp \in RegistrationResponses : RegistrationFetchNoted(c, resp)
       \/ cancel(c)

SpecIns == InitReg /\ [][NextIns]_vars

(* A failed and a successful validating fetch. *)
AdminResponses ==
    {[t |-> "neterr"],
     [t |-> "json", payload |-> [t |-> "dict", paid_till |-> JStr(Iso(23)),
                                 account |-> Absent]]}

(***************************************************************************)
(* SpecFlow: registration conversations in two admin chats of one user:    *)
(* chat 200 is the private chat of user 200, chat 300 a group in which     *)
(* user 200 writes.  Updates are handled one at a time (the Application is *)
(* built without concurrent_updates).                                      *)
(***************************************************************************)
GroupChat == TelegramChat("300", TRUE, FALSE)

effective_user(chat_id) == IF chat_id = GroupChat.chat_id THEN "200" ELSE chat_id

(* What is typed as the shop domain in each chat. *)
FlowDomain(chat_id) ==
    CASE chat_id = "100" -> "one.myinsales.ru"
      [] chat_id = "200" -> " two.myinsales.ru "
      [] OTHER -> "three.myinsales.ru"

Sequential == \A c \in ChatIds : HandlerIdle(c)

InitFlow ==
    /\ accounts = << >>
    /\ chats = {SuperAdminChat, AdminChat, GroupChat}
    /\ today = 15
    /\ SweepIdle
    /\ bcast = [a \in 1..Len(SeedShops) |-> [day |-> 0, n |-> 0]]
    /\ reply = NoReply
    /\ RegIdle
    /\ ClientIdle
    /\ NothingFailed

NextFlow ==
    \E c \in {AdminChat.chat_id, GroupChat.chat_id} :
       \/ Sequential /\ add_account_start(c)
       \/ \E text \in TitleTexts(c) :
             Sequential /\ add_account_title_from(c, effective_user(c), text)
       \/ Sequential /\ add_account_domain_from(c, effective_user(c), FlowDomain(c))
       \/ \E text \in ApiKeyTexts :
             Sequential /\ add_account_api_key_from(c, effective_user(c), text)
       \/ \E text \in ApiPasswordTexts :
             Sequential /\ add_account_api_password_from(c, effective_user(c), text)
       \/ \E resp \in AdminResponses :
             /\ RegistrationAfterFetch(c, effective_user(c), fetch_account(resp))
             /\ UNCHANGED clientVars
       \/ Sequential /\ cancel(c)

SpecFlow == InitFlow /\ [][NextFlow]_vars

(***************************************************************************)
(* SpecBot: the sweep and the clock together with the handlers that write  *)
(* to the store or to a chat's rights: admin chat 200 toggles              *)
(* notifications and registers a second shop, and the super admin revokes  *)
(* and grants chat 200's rights.                                           *)
(***************************************************************************)
(* A failed fetch, one without an expiry and one with the 23rd. *)
BotResponses ==
    AdminResponses
      \cup {[t |-> "json", payload |-> [t |-> "dict", paid_till |-> Absent,
                                         account |-> Absent]]}

InitBot ==
    /\ accounts = << Account(1, SeedShops[1].title, SeedShops[1].shop_domain,
                             "key", "secret", Some(15)) >>
    /\ chats = {SuperAdminChat, AdminChat}
    /\ today = 15
    /\ SweepIdle
    /\ bcast = [a \in 1..Len(SeedShops) |-> [day |-> 0, n |-> 0]]
    /\ reply = NoReply
    /\ RegIdle
    /\ ClientIdle
    /\ NothingFailed

NextBot ==
    \/ SweepStart
    \/ SweepEvaluate
    \/ \E resp \in BotResponses : SweepFetchReturn(resp)
    \/ \E delivered \in BOOLEAN : SweepSend(delivered)
    \/ SweepMark
    \/ NextDay
    \/ \E id \in 1..(Len(accounts) + 1) : handle_toggle_callback("200", id)
    \/ handle_admin_toggle_callback(SuperAdminChatId, "200")
    \/ add_account_start("200")
    \/ add_account_title("200", "Alpha")
    \/ add_account_domain("200", "two.myinsales.ru")
    \/ \E text \in ApiKeyTexts : add_account_api_key("200", text)
    \/ \E text \in ApiPasswordTexts : add_account_api_password("200", text)
    \/ \E resp \in AdminResponses : RegistrationFetchReturn("200", resp)
    \/ cancel("200")

SpecBot == InitBot /\ [][NextBot]_vars

(***************************************************************************)
(* SpecAdmin: chats register with /start, the super admin grants and       *)
(* revokes admin rights, and every chat may use every menu entry and       *)
(* callback; one of the chats that start without rights also holds         *)
(* registration conversations.  One shop is stored at the start.           *)
(***************************************************************************)
Registrants == {"300"}

InitAdmin ==
    /\ accounts = << Account(1, SeedShops[1].title, SeedShops[1].shop_domain,
                             "key", "secret", Some(15)) >>
    /\ chats = {}
    /\ today = 15
    /\ SweepIdle
    /\ bcast = [a \in 1..Len(SeedShops) |-> [day |-> 0, n |-> 0]]
    /\ reply = NoReply
    /\ RegIdle
    /\ ClientIdle
    /\ NothingFailed

NextAdmin ==
    \/ \E c \in ChatIds :
          \/ start(c)
          \/ show_accounts(c)
          \/ show_payment_dates(c)
          \/ toggle_notifications_menu(c)
          \/ show_admin_panel(c)
          \/ \E target \in ChatIds : handle_admin_toggle_callback(c, target)
          \/ \E id \in 1..(Len(accounts) + 1) : handle_toggle_callback(c, id)
    \/ \E c \in Registrants :
          \/ add_account_start(c)
          \/ add_account_title(c, "Alpha")
          \/ add_account_domain(c, "two.myinsales.ru")
          \/ \E text \in ApiKeyTexts : add_account_api_key(c, text)
          \/ \E text \in ApiPasswordTexts : add_account_api_password(c, text)
          \/ \E resp \in AdminResponses : RegistrationFetchReturn(c, resp)
          \/ cancel(c)

SpecAdmin == InitAdmin /\ [][NextAdmin]_vars

(***************************************************************************)
(* SpecHeal: the sweep and the clock over a filled store, with the outcome *)
(* of each account's latest fetch noted.                                   *)
(***************************************************************************)
InitHeal ==
    /\ \E pts \in [1..Len(SeedShops) -> OptDates] :
         accounts = [i \in 1..Len(SeedShops) |->
                       Account(i, SeedShops[i].title, SeedShops[i].shop_domain,
                               "key", "secret", pts[i])]
    /\ chats = {SuperAdminChat, AdminChat, PlainChat}
    /\ today = 15
    /\ SweepIdle
    /\ bcast = [a \in 1..Len(SeedShops) |-> [day |-> 0, n |-> 0]]
    /\ reply = NoReply
    /\ RegIdle
    /\ ClientIdle
    /\ NothingFailed

NextHeal ==
    \/ SweepStart
    \/ SweepEvaluate
    \/ \E resp \in Responses : SweepFetchNoted(resp)
    \/ \E delivered \in BOOLEAN : SweepSend(delivered)
    \/ SweepMark
    \/ NextDay

SpecHeal == InitHeal /\ [][NextHeal]_vars

(***************************************************************************)
(* SpecStop: the sweep and the clock over the tables as the process finds  *)
(* them at its start: any of the seeded accounts, and no chat, chats       *)
(* without the admin flag only, or chats with and without it.              *)
(***************************************************************************)
InitStop ==
    /\ \E n \in 0..Len(SeedShops) :
         \E pts \in [1..n -> OptDates] :
            accounts = [i \in 1..n |->
                          Account(i, SeedShops[i].title, SeedShops[i].shop_domain,
                                  "key", "secret", pts[i])]
    /\ chats \in {{}, {PlainChat}, {AdminChat, PlainChat}}
    /\ today = 15
    /\ SweepIdle
    /\ bcast = [a \in 1..Len(SeedShops) |-> [day |-> 0, n |-> 0]]
    /\ reply = NoReply
    /\ RegIdle
    /\ ClientIdle
    /\ NothingFailed

NextStop ==
    \/ SweepStart
    \/ SweepEvaluate
    \/ \E resp \in Responses : SweepFetchReturn(resp)
    \/ \E delivered \in BOOLEAN : SweepSend(delivered)
    \/ SweepMark
    \/ NextDay

SpecStop == InitStop /\ [][NextStop]_vars

(***************************************************************************)
(* SpecClient: one call of fetch_account, for every answer of the remote   *)
(* (every JSON shape the client tells apart); nothing else runs.           *)
(***************************************************************************)
ClientPayloads ==
    {[t |-> "list"], [t |-> "str"]}
      \cup {[t |-> "dict", paid_till |-> pt, account |-> a] :
               pt \in FieldValues,
               a \in {Absent, JNum} \cup {JDict(n) : n \in FieldValues}}

ClientResponses ==
    {[t |-> "neterr"], [t |-> "status"], [t |-> "badjson"]}
      \cup {[t |-> "json", payload |-> p] : p \in ClientPayloads}

InitClient ==
    /\ accounts = << >>
    /\ chats = {}
    /\ today = 15
    /\ SweepIdle
    /\ bcast = [a \in 1..Len(SeedShops) |-> [day |-> 0, n |-> 0]]
    /\ reply = NoReply
    /\ RegIdle
    /\ cl_resp \in ClientResponses
    /\ cl_info = Pending
    /\ NothingFailed

(* The call ends. *)
ClientFetch ==
    /\ cl_info = Pending
    /\ cl_info' = fetch_account(cl_resp)
    /\ UNCHANGED << cl_resp, accounts, chats, today, sweepVars, bcast, reply, regVars,
                    sw_failed >>

NextClient == ClientFetch

SpecClient == InitClient /\ [][NextClient]_vars

(***************************************************************************)
(* The sweep's properties, under Spec                                      *)
(***************************************************************************)
(* C1: when the account the sweep evaluates has notifications_enabled false, the
   sweep goes on to the next account (or ends): no fetch is issued and nothing is
   sent for it, and the store (its paid_till and last_notified_at with it) and the
   count of broadcasts are left as they were. *)
C1_DisabledAccountSkipped ==
    [][(sw_pc = "loop" /\ ~Head(sw_accounts).notifications_enabled /\ sweepVars' # sweepVars)
         => /\ sw_pc' \in {"loop", "idle"}
            /\ sw_pc' = "loop" => sw_accounts' = Tail(sw_accounts)
            /\ accounts' = accounts
            /\ bcast' = bcast]_vars

(* The sweep of day 16 is past the disabled account Alpha, which is overdue and
   was never notified. *)
C1_Witness ==
    /\ sw_pc = "loop" /\ Len(sw_accounts) = 1 /\ sw_today = 16
    /\ Len(accounts) = 2
    /\ ~accounts[2].notifications_enabled
    /\ accounts[2].paid_till = Some(15)
    /\ accounts[2].last_notified_at = None
    /\ bcast[2].n = 0

(* C2: no account has more than one broadcast begun on one day, and a broadcast
   is never under way (nor last_notified_at about to be written) for an account
   whose stored last_notified_at already is the sweep's today. *)
C2_OncePerDay ==
    /\ \A a \in DOMAIN bcast : bcast[a].n <= 1
    /\ sw_pc \in {"send", "mark"}
         => accounts[Head(sw_accounts).id].last_notified_at # Some(sw_today)

(* A later sweep of the same day has loaded an account already notified today and
   overdue, and has issued its fetch. *)
C2_Witness ==
    /\ sw_pc = "fetch"
    /\ Head(sw_accounts).last_notified_at = Some(sw_today)
    /\ Head(sw_accounts).paid_till = Some(15)
    /\ sw_today = 16
    /\ bcast[Head(sw_accounts).id] = [day |-> 16, n |-> 1]

(* C3: when the fetch returns a known expiry for an account not yet notified
   today, days_left < 0 gives the overdue text, days_left = 0 the due-today text,
   1..7 the due-in-N-days text with N = days_left, and days_left >= 8 gives no
   broadcast and leaves last_notified_at as it was. *)
C3_Classification ==
    [][(sw_pc = "fetch" /\ sw_pc' # "fetch") => \A info \in FetchOutcomes :
         LET account == Head(sw_accounts)
             days_left == info.paid_till[1] - sw_today
         IN (/\ SweepAfterFetch(info)
             /\ info.raised = ""
             /\ info.paid_till # None
             /\ accounts[account.id].last_notified_at # Some(sw_today))
            => /\ days_left < 0 => sw_pc' = "send" /\ sw_message'.kind = "overdue"
               /\ days_left = 0 => sw_pc' = "send" /\ sw_message'.kind = "due_today"
               /\ (1 <= days_left /\ days_left <= 7)
                    => /\ sw_pc' = "send"
                       /\ sw_message'.kind = "due_in"
                       /\ sw_message'.days = days_left
               /\ days_left >= 8
                    => /\ sw_pc' # "send"
                       /\ accounts'[account.id].last_notified_at
                            = accounts[account.id].last_notified_at]_vars

(* The broadcast of "7 days left" is under way. *)
C3_Witness ==
    /\ sw_pc = "send"
    /\ sw_message.kind = "due_in"
    /\ sw_message.days = 7
    /\ sw_message.paid_till = Some(sw_today + 7)

(* C4: when the fetch returns, the stored paid_till is the fetched value, a
   broadcast begins exactly when the fetched value is known and at most 7 days
   ahead of today and the account was not notified today, and the text carries the
   fetched date. *)
C4_RefreshBeforeClassify ==
    [][(sw_pc = "fetch" /\ sw_pc' # "fetch") => \A info \in FetchOutcomes :
         LET account == Head(sw_accounts)
         IN (SweepAfterFetch(info) /\ info.raised = "")
            => /\ accounts'[account.id].paid_till = info.paid_till
               /\ (sw_pc' = "send")
                    <=> (/\ info.paid_till # None
                         /\ info.paid_till[1] - sw_today <= 7
                         /\ accounts[account.id].last_notified_at # Some(sw_today))
               /\ sw_pc' = "send" => sw_message'.paid_till = info.paid_till]_vars

(* Notified on day 15, so cached as due then; on day 16 the fetch reported day 23:
   day 23 is stored and "7 days left" is being broadcast. *)
C4_Witness ==
    /\ sw_pc = "send" /\ sw_today = 16
    /\ sw_message.kind = "due_in" /\ sw_message.days = 7
    /\ accounts[Head(sw_accounts).id].paid_till = Some(23)
    /\ accounts[Head(sw_accounts).id].last_notified_at = Some(15)

(* C5: when the fetch for an account fails, the store is left as it was, nothing
   is broadcast, and the sweep goes on with the next account. *)
C5_FetchFailureIsolated ==
    [][(sw_pc = "fetch" /\ sw_pc' # "fetch") => \A info \in FetchOutcomes :
         (SweepAfterFetch(info) /\ info.raised # "")
            => /\ accounts' = accounts
               /\ sw_pc' # "send"
               /\ bcast' = bcast
               /\ Len(sw_accounts) > 1
                    => /\ sw_pc' = "loop"
                       /\ sw_accounts' = Tail(sw_accounts)
                       /\ sw_today' = sw_today
                       /\ sw_chats' = sw_chats]_vars

(* C6: a send that fails is followed by the send to the next chat; when the
   broadcast is over every recipient was attempted; and the step after the
   broadcast stores today as last_notified_at, whatever was delivered. *)
C6_FanOut ==
    /\ [](sw_pc = "mark"
            => sw_attempted = {sw_chats[k].chat_id : k \in 1..Len(sw_chats)})
    /\ [][(sw_pc = "send" /\ sweepVars' # sweepVars)
            => /\ sw_pc' \in {"send", "mark"}
               /\ sw_attempted' = sw_attempted \cup {sw_chats[sw_j].chat_id}
               /\ sw_pc' = "mark" <=> sw_j = Len(sw_chats)]_vars
    /\ [][(sw_pc = "mark" /\ sweepVars' # sweepVars)
            => accounts'[Head(sw_accounts).id].last_notified_at = Some(sw_today)]_vars

(* The broadcast is over: the send to the first chat failed, a later one was
   delivered. *)
C6_Witness ==
    /\ sw_pc = "mark"
    /\ "100" \notin sw_delivered
    /\ "200" \in sw_delivered
    /\ Cardinality(sw_attempted) = 3

(* C7: the chats a sweep's message was delivered to are admin chats. *)
C7_OnlyAdminsReceive ==
    \A c \in sw_delivered : \E r \in chats : r.chat_id = c /\ r.is_admin

(* C14: never more than one instance of the sweep is running, and one is running
   exactly while the sweep is past its start, suspended or not. *)
C14_OneSweepInFlight ==
    /\ sw_instances <= 1
    /\ sw_pc # "idle" <=> sw_instances = 1

(* The sweep of the 15th is still suspended at a fetch on the 16th, when the
   trigger is due again. *)
C14_Witness ==
    /\ sw_pc = "fetch"
    /\ sw_instances = 1
    /\ sw_today = 15 /\ today = 16

(* C17: the sweep begins a broadcast for an account, calls send_message for it
   and writes its last_notified_at only while the stored notifications_enabled of
   that account is true, so a toggle that stored false while the sweep was
   suspended stops all three. *)
C17_StoredFlagDecides ==
    [][(/\ sw_pc \in {"fetch", "send", "mark"}
        /\ \/ sw_pc = "fetch" /\ sw_pc' = "send"
           \/ sw_attempted' # sw_attempted /\ sw_attempted' # {}
           \/ accounts'[Head(sw_accounts).id].last_notified_at
                 # accounts[Head(sw_accounts).id].last_notified_at)
       => accounts[Head(sw_accounts).id].notifications_enabled]_vars

(* C24: when the fetch for the account under evaluation returns without an expiry
   date, the sweep goes on to the next account (or ends) without beginning a
   broadcast, the account's last_notified_at stays as stored and its stored
   paid_till is the empty one, whatever expiry was stored before. *)
C24_UnknownExpirySkipped ==
    [][(sw_pc = "fetch" /\ sw_pc' # "fetch" /\ SweepAfterFetch(Return(None)))
         => LET id == Head(sw_accounts).id
            IN /\ sw_pc' \in {"loop", "idle"}
               /\ sw_message' = NoMessage
               /\ bcast' = bcast
               /\ accounts'[id].last_notified_at = accounts[id].last_notified_at
               /\ accounts'[id].paid_till = None
               /\ \A i \in DOMAIN accounts : i # id => accounts'[i] = accounts[i]]_vars

(* Alpha was notified on the 15th, when an expiry was stored for it; no expiry is
   stored for it now, and the sweep of the 16th has passed it without a broadcast
   and is at Beta. *)
C24_Witness ==
    /\ sw_pc = "loop" /\ sw_today = 16
    /\ Len(accounts) = 2 /\ Len(sw_accounts) = 1 /\ Head(sw_accounts).id = 1
    /\ accounts[2].notifications_enabled
    /\ accounts[2].paid_till = None
    /\ accounts[2].last_notified_at = Some(15)
    /\ bcast[2] = [day |-> 15, n |-> 1]

(* C26: the toggle callback of an admin chat for a stored account negates that
   account's notifications_enabled and changes no other field and no other row;
   for an id that is not stored it changes nothing; and what the handler does to
   the store, done twice for the same account, gives the store back. *)
C26_ToggleFlipsOneFlag ==
    /\ [][\A c \in ChatIds : \A id \in 1..(Len(accounts) + 1) :
            (/\ today' = today /\ sw_pc' = sw_pc /\ reply'.chat_id = c
             /\ _get_access_flags(c).is_admin
             /\ handle_toggle_callback(c, id))
              => IF id \in DOMAIN accounts
                 THEN /\ DOMAIN accounts' = DOMAIN accounts
                      /\ accounts'[id].notifications_enabled
                            = ~accounts[id].notifications_enabled
                      /\ \A f \in {"id", "title", "shop_domain", "api_key",
                                     "api_password", "paid_till", "last_notified_at"} :
                            accounts'[id][f] = accounts[id][f]
                      /\ \A i \in DOMAIN accounts : i # id => accounts'[i] = accounts[i]
                 ELSE accounts' = accounts]_vars
    /\ [](\A id \in DOMAIN accounts :
            LET once == set_notification_state(accounts, get_account(accounts, id)[1],
                           ~get_account(accounts, id)[1].notifications_enabled)
                twice == set_notification_state(once, get_account(once, id)[1],
                           ~get_account(once, id)[1].notifications_enabled)
            IN once # accounts /\ twice = accounts)

(* Admin chat 200 switched Beta's notifications off after Beta was notified on the
   15th: Beta keeps its expiry and its last notification, Alpha is as it was. *)
C26_Witness ==
    /\ reply = [chat_id |-> "200", text |-> "notifications_off", keyboard |-> ""]
    /\ Len(accounts) = 2
    /\ ~accounts[1].notifications_enabled
    /\ accounts[1].paid_till = Some(15)
    /\ accounts[1].last_notified_at = Some(15)
    /\ accounts[2].notifications_enabled

(* C23: while the sweep waits on the remote fetch or on a message send, its
   session holds no transaction.  The statements of list_accounts and list_chats
   begin one that nothing ends before the first fetch, and the refresh after
   each commit begins another, so the property does not hold of the sweep. *)
C23_NoOpenTransaction ==
    sw_pc \in {"fetch", "send"} => sw_tx = "none"

(***************************************************************************)
(* The registration's properties, under SpecReg                            *)
(***************************************************************************)
(* C8: no two stored accounts share a shop_domain; and when the final step's
   fetch succeeded for a domain that is stored, whichever chat stored it and
   whether or not the two final steps overlapped, the flow ends with the
   'already exists' reply and the store is left exactly as it was. *)
C8_UniqueShopDomain ==
    /\ [](\A i, j \in DOMAIN accounts :
            accounts[i].shop_domain = accounts[j].shop_domain => i = j)
    /\ [][\A c \in ChatIds : (reg_pc[c] = "fetch" /\ reg_pc'[c] = "idle") =>
         \A resp \in RegistrationResponses :
            (/\ RegistrationFetchReturn(c, resp)
             /\ fetch_account(resp).raised = ""
             /\ \E i \in DOMAIN accounts :
                   accounts[i].shop_domain = user_data[c]["shop_domain"])
            => /\ accounts' = accounts
               /\ conv'[c] = "END"
               /\ reply'.chat_id = c
               /\ reply'.text = "already_exists"]_vars

(* Chat 200 finished registering the domain chat 100 had stored (typed with
   spaces around it): it was answered 'already exists' and the store holds
   chat 100's row only. *)
C8_Witness ==
    /\ reply.chat_id = "200" /\ reply.text = "already_exists"
    /\ conv["200"] = "END"
    /\ user_data["200"] = [title |-> "Beta", shop_domain |-> "two.myinsales.ru",
                           api_key |-> "key", api_password |-> "secret"]
    /\ accounts = << Account(1, "Alpha", "two.myinsales.ru", "key", "secret", Some(15)) >>

(* C9: when the fetch of the final registration step fails, the conversation
   ends, the chat is sent the error message, and the store is left as it was. *)
C9_FetchFailureEndsFlow ==
    [][\A c \in ChatIds : (reg_pc[c] = "fetch" /\ reg_pc'[c] = "idle") =>
         \A resp \in RegistrationResponses :
         (RegistrationFetchReturn(c, resp) /\ fetch_account(resp).raised # "")
         => /\ conv'[c] = "END"
            /\ reply'.chat_id = c
            /\ reply'.text = "fetch_failed"
            /\ accounts' = accounts]_vars

(* C10: the conversation of an admin chat changes state only along
   END -> ADD_TITLE -> ADD_DOMAIN -> ADD_API_KEY -> ADD_API_PASSWORD -> END, one
   state per handled input, or to END by /cancel; the entry command and each text
   handled in ADD_TITLE, ADD_DOMAIN and ADD_API_KEY move it to the next state;
   /cancel ends the conversation and stores nothing; and a row is stored only by
   the step that leaves ADD_API_PASSWORD. *)
C10_LinearFlow ==
    [][\A c \in ChatIds :
         /\ _get_access_flags(c).is_admin
              => /\ add_account_start(c) => conv'[c] = "ADD_TITLE"
                 /\ \A text \in TitleTexts(c) :
                      add_account_title(c, text) => conv'[c] = "ADD_DOMAIN"
                 /\ \A text \in DomainTexts :
                      add_account_domain(c, text) => conv'[c] = "ADD_API_KEY"
                 /\ \A text \in ApiKeyTexts :
                      add_account_api_key(c, text) => conv'[c] = "ADD_API_PASSWORD"
         /\ (_get_access_flags(c).is_admin /\ conv'[c] # conv[c])
              => /\ \/ << conv[c], conv'[c] >> \in
                         { << "END", "ADD_TITLE" >>,
                           << "ADD_TITLE", "ADD_DOMAIN" >>,
                           << "ADD_DOMAIN", "ADD_API_KEY" >>,
                           << "ADD_API_KEY", "ADD_API_PASSWORD" >>,
                           << "ADD_API_PASSWORD", "END" >> }
                    \/ cancel(c)
                 /\ \A d \in ChatIds \ {c} : conv'[d] = conv[d]
         /\ cancel(c) => conv'[c] = "END" /\ accounts' = accounts
         /\ (accounts' # accounts /\ reg_pc'[c] # reg_pc[c])
              => conv[c] = "ADD_API_PASSWORD" /\ conv'[c] = "END"]_vars

(* Chat 100 went through the four steps and its account is stored; chat 200
   cancelled while its API password was awaited. *)
C10_Witness ==
    /\ reply.chat_id = "200" /\ reply.text = "cancelled"
    /\ conv["200"] = "END"
    /\ DOMAIN user_data["200"] = {"title", "shop_domain", "api_key"}
    /\ conv["100"] = "END"
    /\ Len(accounts) = 1
    /\ accounts[1].title = "Alpha"

(* C20 (under SpecIns): the store changes only by the final registration step of
   some chat whose fetch returned without raising, and the change is one appended row holding what
   that chat typed (the dict the fetch was issued with), the fetched paid_till,
   notifications_enabled true and last_notified_at empty; the fetch is issued only
   from ADD_API_PASSWORD with the four entries present. *)
C20_RowsComeFromRegistration ==
    /\ [][accounts' # accounts =>
            \E c \in ChatIds :
               /\ reg_pc[c] = "fetch" /\ reg_pc'[c] = "idle"
               /\ RegistrationFetchNoted(c, cl_resp')
               /\ cl_info'.raised = ""
               /\ accounts' = Append(accounts,
                     [id |-> Len(accounts) + 1,
                      title |-> user_data[c]["title"],
                      shop_domain |-> user_data[c]["shop_domain"],
                      api_key |-> user_data[c]["api_key"],
                      api_password |-> user_data[c]["api_password"],
                      paid_till |-> cl_info'.paid_till,
                      notifications_enabled |-> TRUE,
                      last_notified_at |-> None])]_vars
    /\ [][\A c \in ChatIds :
            /\ reg_pc[c] = "fetch" => user_data'[c] = user_data[c]
            /\ (reg_pc[c] # "fetch" /\ reg_pc'[c] = "fetch")
                 => /\ conv[c] = "ADD_API_PASSWORD"
                    /\ DOMAIN user_data'[c] =
                         {"title", "shop_domain", "api_key", "api_password"}]_vars

(* Chat 100's registration fetched the 23rd and chat 200's, just now, an empty
   expiry; both rows are stored as fetched, enabled and never notified. *)
C20_Witness ==
    /\ cl_info = Return(None)
    /\ Len(accounts) = 2
    /\ accounts[1].title = "Alpha" /\ accounts[1].paid_till = Some(23)
    /\ accounts[2].title = "Beta" /\ accounts[2].paid_till = None
    /\ \A i \in 1..2 : accounts[i].notifications_enabled
                         /\ accounts[i].last_notified_at = None
    /\ reply.chat_id = "200" /\ reply.text = "saved"

(* C21 (under SpecFlow): the row a chat's final step inserts carries the title and
   the domain typed in that chat, and a handled message of one chat changes
   neither the conversation state of another chat nor, while that chat's
   conversation is open, the data it has collected. *)
C21_FlowsIsolated ==
    [][\A c \in ChatIds :
         /\ (reg_pc[c] = "fetch" /\ reg_pc'[c] = "idle" /\ accounts' # accounts)
              => /\ accounts'[Len(accounts')].title \in {Strip(t) : t \in TitleTexts(c)}
                 /\ accounts'[Len(accounts')].shop_domain = Strip(FlowDomain(c))
         /\ (conv'[c] # conv[c] \/ reg_pc'[c] # reg_pc[c])
              => \A d \in ChatIds \ {c} : conv'[d] = conv[d] /\ reg_pc'[d] = reg_pc[d]]_vars

(***************************************************************************)
(* The store under all its writers, under SpecBot                          *)
(***************************************************************************)
(* C27: a row's last_notified_at changes in no step but the sweep's step after a
   broadcast for that row in which every loaded recipient was attempted, and the
   value written is that sweep's today; a new row has none; so a stored date d is
   never later than today and a broadcast for the row was begun on d or later. *)
C27_LastNotifiedProvenance ==
    /\ [][\A i \in DOMAIN accounts' :
            accounts'[i].last_notified_at
                # (IF i \in DOMAIN accounts THEN accounts[i].last_notified_at ELSE None)
            => /\ sw_pc = "mark"
               /\ SweepMark
               /\ Head(sw_accounts).id = i
               /\ sw_message.kind \in {"overdue", "due_today", "due_in"}
               /\ sw_attempted = {sw_chats[k].chat_id : k \in DOMAIN sw_chats}
               /\ accounts'[i].last_notified_at = Some(sw_today)]_vars
    /\ [](\A i \in DOMAIN accounts :
            accounts[i].last_notified_at # None
            => /\ accounts[i].last_notified_at[1] <= today
               /\ bcast[i].n >= 1
               /\ bcast[i].day >= accounts[i].last_notified_at[1])

(* Beta was notified on the 16th and switched off afterwards; Alpha, registered by
   chat 200 before its rights were revoked, has never been notified. *)
C27_Witness ==
    /\ Len(accounts) = 2
    /\ accounts[1].last_notified_at = Some(16)
    /\ ~accounts[1].notifications_enabled
    /\ accounts[2].last_notified_at = None
    /\ accounts[2].paid_till = Some(23)
    /\ TelegramChat("200", FALSE, FALSE) \in chats
    /\ sw_pc = "idle"

(***************************************************************************)
(* The access gate and admin management, under SpecAdmin                   *)
(***************************************************************************)
Denied(chat_id) ==
    /\ reply'.chat_id = chat_id
    /\ reply'.text \in {"no_access", "only_super_admin", "super_admin_required"}
    /\ accounts' = accounts
    /\ chats' = chats

(* C11: whenever a chat without a record, or with is_admin false, invokes the
   add-account entry or one of its steps, the accounts list, the payment dates,
   the notification-toggle menu, the toggle callback, the admin panel or the admin
   callback, the handler answers that chat with a denial and leaves the Account
   and Chat stores as they were. *)
C11_AccessGate ==
    [][\A c \in ChatIds :
         ~_get_access_flags(c).is_admin =>
            /\ add_account_start(c) => Denied(c)
            /\ add_account_title(c, "Alpha") => Denied(c)
            /\ add_account_domain(c, "two.myinsales.ru") => Denied(c)
            /\ \A text \in ApiKeyTexts : add_account_api_key(c, text) => Denied(c)
            /\ \A text \in ApiPasswordTexts :
                  add_account_api_password(c, text) => Denied(c)
            /\ show_accounts(c) => Denied(c)
            /\ show_payment_dates(c) => Denied(c)
            /\ toggle_notifications_menu(c) => Denied(c)
            /\ \A id \in 1..(Len(accounts) + 1) :
                  handle_toggle_callback(c, id) => Denied(c)
            /\ show_admin_panel(c) => Denied(c)
            /\ \A target \in ChatIds :
                  handle_admin_toggle_callback(c, target) => Denied(c)]_vars

(* Chat 300 was granted admin rights, typed its registration up to the API key,
   had the rights revoked, and its API password was answered with the denial;
   chat 200 has never registered. *)
C11_Witness ==
    /\ reply = [chat_id |-> "300", text |-> "no_access", keyboard |-> "remove"]
    /\ TelegramChat("300", FALSE, FALSE) \in chats
    /\ DOMAIN user_data["300"] = {"title", "shop_domain", "api_key"}
    /\ conv["300"] = "END"
    /\ get_chat(chats, "200") = None

(* C12: every chat record with is_super_admin true has is_admin true and is the
   record of the configured super-admin identifier; the record of that identifier
   holds both flags from its creation on; and no /start and no admin callback
   takes the record, or either of its flags, away. *)
C12_SuperAdminInvariant ==
    /\ [](\A r \in chats :
            /\ r.is_super_admin => (r.is_admin /\ r.chat_id = SuperAdminChatId)
            /\ r.chat_id = SuperAdminChatId => (r.is_admin /\ r.is_super_admin))
    /\ [][(SuperAdminChat \in chats) => (SuperAdminChat \in chats')]_vars

(* The super admin pressed the button admin:100 and was refused; its record holds
   both flags, next to one granted admin. *)
C12_Witness ==
    /\ reply = [chat_id |-> SuperAdminChatId, text |-> "cannot_change_super_admin",
                keyboard |-> ""]
    /\ SuperAdminChat \in chats
    /\ AdminChat \in chats

(* C13: the admin panel shows the overview, and the admin:{chatId} callback
   changes the chats table, only when the invoking chat's record has
   is_super_admin true; invoked by any other chat, an ordinary admin included, they
   answer with the super-admin denial and the chats table stays as it was. *)
C13_SuperAdminOnly ==
    [][\A c \in ChatIds :
         /\ ~_get_access_flags(c).is_super_admin =>
               /\ show_admin_panel(c) =>
                     /\ reply'.chat_id = c /\ reply'.text = "only_super_admin"
                     /\ chats' = chats
               /\ \A target \in ChatIds :
                     handle_admin_toggle_callback(c, target) =>
                        /\ reply'.chat_id = c /\ reply'.text = "super_admin_required"
                        /\ chats' = chats
         /\ (show_admin_panel(c) /\ reply'.text \in {"admin_overview", "no_chats_yet"})
               => _get_access_flags(c).is_super_admin
         /\ \A target \in ChatIds :
               (handle_admin_toggle_callback(c, target) /\ chats' # chats)
                  => _get_access_flags(c).is_super_admin]_vars

(* Chat 200, an ordinary admin, pressed a button of the admin overview and was
   refused; chat 300 is still without rights. *)
C13_Witness ==
    /\ reply = [chat_id |-> "200", text |-> "super_admin_required", keyboard |-> ""]
    /\ chats = {SuperAdminChat, AdminChat, PlainChat}

(* C18: the record of a chat that holds granted admin rights (is_admin true, no
   super admin) loses them in no step but the super admin's admin callback for
   that chat. *)
C18_GrantedRightsPersist ==
    [][\A c \in ChatIds :
         (/\ TelegramChat(c, TRUE, FALSE) \in chats
          /\ TelegramChat(c, TRUE, FALSE) \notin chats')
            => /\ handle_admin_toggle_callback(SuperAdminChatId, c)
               /\ _get_access_flags(SuperAdminChatId).is_super_admin]_vars

(* C22: a step input of a chat whose record has lost is_admin since its
   conversation began ends the conversation with the denial and issues no fetch;
   the validating fetch is issued only for a chat that is admin when its password
   input is handled; and the store changes only when such a fetch returns. *)
C22_RevokedMidRegistration ==
    [][\A c \in ChatIds :
         /\ ~_get_access_flags(c).is_admin =>
               \A text \in {"Alpha", "two.myinsales.ru"} \cup ApiKeyTexts
                              \cup ApiPasswordTexts :
                  (\/ add_account_title(c, text)
                   \/ add_account_domain(c, text)
                   \/ add_account_api_key(c, text)
                   \/ add_account_api_password(c, text))
                  => /\ conv'[c] = "END"
                     /\ reg_pc'[c] = "idle"
                     /\ reply'.chat_id = c /\ reply'.text = "no_access"
                     /\ accounts' = accounts
         /\ (reg_pc[c] # "fetch" /\ reg_pc'[c] = "fetch")
               => _get_access_flags(c).is_admin /\ conv[c] = "ADD_API_PASSWORD"
         /\ (DOMAIN accounts' # DOMAIN accounts /\ reg_pc'[c] # reg_pc[c])
               => reg_pc[c] = "fetch" /\ reg_pc'[c] = "idle"]_vars

(* Chat 300 was granted admin rights, typed a title, had the rights revoked by the
   super admin, and its domain input was answered with the denial: the
   conversation is over with the title alone collected and no row added. *)
C22_Witness ==
    /\ reply = [chat_id |-> "300", text |-> "no_access", keyboard |-> "remove"]
    /\ conv["300"] = "END"
    /\ user_data["300"] = [title |-> "Alpha"]
    /\ TelegramChat("300", FALSE, FALSE) \in chats
    /\ Len(accounts) = 1

(***************************************************************************)
(* The sweep's recovery from failed fetches, under SpecHeal                *)
(***************************************************************************)
(* C19: a sweep in which the fetch for an account fails leaves that account's row
   as it was; and in the first sweep of a later day in which the fetch succeeds
   again, if the fetched expiry is overdue or within 7 days, the broadcast begins,
   runs to its end, and today is stored as last_notified_at. *)
C19_SelfHealing ==
    /\ [][(sw_pc = "fetch" /\ sw_pc' # "fetch") => \A info \in FetchOutcomes :
            LET id == Head(sw_accounts).id
            IN /\ (SweepAfterFetch(info) /\ info.raised # "")
                    => accounts'[id] = accounts[id]
               /\ (/\ SweepAfterFetch(info)
                   /\ info.raised = ""
                   /\ Len(sw_failed[id]) = 1
                   /\ sw_failed[id][1] < sw_today
                   /\ info.paid_till # None
                   /\ info.paid_till[1] - sw_today <= 7)
                    => /\ sw_pc' = "send"
                       /\ sw_message'.kind \in {"overdue", "due_today", "due_in"}]_vars
    /\ [][sw_pc = "send" => sw_pc' \in {"send", "mark"}]_vars
    /\ [][(sw_pc = "mark" /\ sw_pc' # "mark")
            => accounts'[Head(sw_accounts).id].last_notified_at = Some(sw_today)]_vars

(* The account was notified on the 15th, a later fetch for it failed on the 15th,
   and the sweep of the 16th, whose fetch succeeded, has broadcast 'overdue' and
   is about to store the 16th. *)
C19_Witness ==
    /\ sw_pc = "mark" /\ sw_today = 16
    /\ sw_failed[Head(sw_accounts).id] = << 15, 16 >>
    /\ Head(sw_accounts).last_notified_at = Some(15)
    /\ sw_message.kind = "overdue"

(***************************************************************************)
(* The sweep's early stop, under SpecStop                                  *)
(***************************************************************************)
(* C25: when the account store is empty or the recipient set (the chats whose
   is_admin flag is true) is empty at the start of a sweep, the sweep fetches
   nothing, sends nothing and writes no paid_till and no last_notified_at.
   Under SpecStop neither table changes its rows' number or flags, so the
   premise at the sweep's start is the premise now.  The sweep stops early on
   the chats it loads, which are all the chats, so the property does not hold
   of a store whose only chats lack the admin flag. *)
C25_EarlyStop ==
    (accounts = << >> \/ list_admin_chats(chats) = << >>)
        => /\ sw_pc \notin {"fetch", "send", "mark"}
           /\ \A a \in DOMAIN accounts :
                 /\ accounts[a].last_notified_at = None
                 /\ bcast[a].n = 0

(***************************************************************************)
(* The remote client's properties, under SpecClient                        *)
(***************************************************************************)
(* C15 as claimed: for a payload with paid_till at its root, fetch_account
   returns no date when the field is absent or empty and also when it is a
   string that is no ISO date. *)
C15_MalformedYieldsUnknown ==
    (/\ cl_info # Pending
     /\ cl_resp.t = "json" /\ cl_resp.payload.t = "dict"
     /\ cl_resp.payload.account = Absent
     /\ cl_resp.payload.paid_till \in {Absent, JStr(""), JStr("20.01.2024")})
    => cl_info = Return(None)

(* C15 as amended: fetch_account returns no date when the field is absent or
   empty; for a string that is no ISO date it raises ValueError, which is among
   the exceptions the sweep catches. *)
C15_MalformedRaises ==
    (/\ cl_info # Pending
     /\ cl_resp.t = "json" /\ cl_resp.payload.t = "dict"
     /\ cl_resp.payload.account = Absent)
    => /\ cl_resp.payload.paid_till \in {Absent, JStr("")} => cl_info = Return(None)
       /\ cl_resp.payload.paid_till = JStr("20.01.2024")
            => cl_info = Raise("ValueError") /\ Caught(cl_info)

(* The call for {"paid_till": "20.01.2024"} has raised ValueError. *)
C15_Witness ==
    /\ cl_resp = [t |-> "json",
                  payload |-> [t |-> "dict", paid_till |-> JStr("20.01.2024"),
                               account |-> Absent]]
    /\ cl_info = Raise("ValueError")

(* C16: with a nested "account" object the result is the nested paid_till
   whatever the root holds, and no date when the nested object has none; with no
   nested object it is the root's paid_till, and no date when the root has
   none. *)
C16_NestedShapeWins ==
    (cl_info # Pending /\ cl_resp.t = "json" /\ cl_resp.payload.t = "dict")
    => LET root == cl_resp.payload.paid_till
           nested == cl_resp.payload.account
       IN IF nested.t = "dict"
          THEN /\ \A d \in Dates : nested.paid_till = JStr(Iso(d)) => cl_info = Return(Some(d))
               /\ nested.paid_till = Absent => cl_info = Return(None)
          ELSE /\ \A d \in Dates : root = JStr(Iso(d)) => cl_info = Return(Some(d))
               /\ root = Absent => cl_info = Return(None)

(* {"paid_till": "2024-01-15", "account": {"paid_till": "2024-01-23"}} gave the
   23rd. *)
C16_Witness ==
    /\ cl_resp = [t |-> "json",
                  payload |-> [t |-> "dict", paid_till |-> JStr(Iso(15)),
                               account |-> JDict(JStr(Iso(23)))]]
    /\ cl_info = Return(Some(23))
====
